---- MODULE Spec2Model ----
(***************************************************************************)
(* A model of the Basic Web Application Firewall: the signature detector   *)
(* of waf.py (two regular expressions searched case-insensitively) and the *)
(* request pipeline of app.py (the before_request hook check_security, the *)
(* log file waf.log, and the "5 per minute" limit decorating home).        *)
(*                                                                         *)
(* A string is a sequence of one-character strings, so that the regular    *)
(* expressions are evaluated character by character.                       *)
(***************************************************************************)
EXTENDS Naturals, Sequences, FiniteSets

VARIABLES
    input_data,  \* the argument handed to the detector (detector runs)
    returned,    \* the detectors that have returned for input_data
    sqlResult,   \* what detect_sql_injection(input_data) returned
    xssResult,   \* what detect_xss(input_data) returned
    pc,          \* per worker: where it is in the handling of its request
    req,         \* per worker: the request it handles (remote_addr, route, form)
    fields,      \* per worker: request.form.items(), what check_security loops over
    idx,         \* per worker: the position of check_security's for loop
    cls,         \* per worker: the attack class that matched, or "none"
    status,      \* per worker: the HTTP status of the response, 0 while none
    wrote,       \* per worker: records logged while handling the request
    log,         \* waf.log: the sequence of records appended so far
    logFailures, \* how many times the append to waf.log has failed
    hits,        \* the limiter's counter per remote address, this window
    passed,      \* requests per address and route that reached the view, this window
    late,        \* per worker: its request arrived with the quota already used up
    received     \* requests received since start

detVars == <<input_data, returned, sqlResult, xssResult>>
gateVars == <<pc, req, fields, idx, cls, status, wrote, log, logFailures, hits,
              passed, late, received>>
vars == <<input_data, returned, sqlResult, xssResult, pc, req, fields, idx, cls,
          status, wrote,
          log, logFailures, hits, passed, late, received>>

(***************************************************************************)
(* Characters                                                              *)
(***************************************************************************)
UpperLetters ==
    <<"A","B","C","D","E","F","G","H","I","J","K","L","M",
      "N","O","P","Q","R","S","T","U","V","W","X","Y","Z">>

LowerLetters ==
    <<"a","b","c","d","e","f","g","h","i","j","k","l","m",
      "n","o","p","q","r","s","t","u","v","w","x","y","z">>

Digits == {"0","1","2","3","4","5","6","7","8","9"}

Range(f) == {f[i] : i \in DOMAIN f}

\* re.IGNORECASE compares letters without regard to case.
Lower(c) ==
    IF \E i \in DOMAIN UpperLetters : UpperLetters[i] = c
    THEN LowerLetters[CHOOSE i \in DOMAIN UpperLetters : UpperLetters[i] = c]
    ELSE c

\* \w: a letter, a digit or the underscore.
IsWordChar(c) ==
    c \in Range(UpperLetters) \cup Range(LowerLetters) \cup Digits \cup {"_"}

\* \b before position p of s (1 .. Len(s)+1): exactly one of the characters
\* on its two sides is a word character; outside the string counts as none.
WordBoundary(s, p) ==
    LET before == p > 1 /\ IsWordChar(s[p - 1])
        after  == p <= Len(s) /\ IsWordChar(s[p])
    IN  before # after

\* The literal lit (given in lower case) stands at position i of s.
LiteralAt(s, i, lit) ==
    /\ i >= 1
    /\ i + Len(lit) - 1 <= Len(s)
    /\ \A k \in 1..Len(lit) : Lower(s[i + k - 1]) = lit[k]

\* "." without re.DOTALL: any character but the line feed.
Dot(c) == c # "\n"

(***************************************************************************)
(* waf.py: the two patterns and their search                               *)
(***************************************************************************)
kwSelect == <<"s","e","l","e","c","t">>
kwInsert == <<"i","n","s","e","r","t">>
kwUnion  == <<"u","n","i","o","n">>
kwDrop   == <<"d","r","o","p">>
litDashes == <<"-","-">>
litSemicolon == <<";">>
litScriptOpen == <<"<","s","c","r","i","p","t">>
litScriptClose == <<"<","/","s","c","r","i","p","t",">">>

\* The pattern with its two \b left out.
BoundedAt_without_boundaries(s, i, lit) == LiteralAt(s, i, lit)

\* \blit\b matches at position i of s.
BoundedAt(s, i, lit) ==
    /\ LiteralAt(s, i, lit)
    /\ WordBoundary(s, i)
    /\ WordBoundary(s, i + Len(lit))

\* (\bselect\b|\binsert\b|\bunion\b|\b--\b|\b;\b|\bdrop\b) matches at i.
SQL_INJECTION_PATTERN(s, i) ==
    \/ BoundedAt(s, i, kwSelect)
    \/ BoundedAt(s, i, kwInsert)
    \/ BoundedAt(s, i, kwUnion)
    \/ BoundedAt(s, i, litDashes)
    \/ BoundedAt(s, i, litSemicolon)
    \/ BoundedAt(s, i, kwDrop)

\* <script.*?>.*?</script> matches at i: "<script", then characters other
\* than a line feed up to some ">", then characters other than a line feed up
\* to some "</script>". Lazy or greedy, a match exists for the same strings.
XSS_PATTERN(s, i) ==
    /\ LiteralAt(s, i, litScriptOpen)
    /\ \E j \in (i + Len(litScriptOpen))..Len(s) :
          /\ s[j] = ">"
          /\ \A m \in (i + Len(litScriptOpen))..(j - 1) : Dot(s[m])
          /\ \E k \in (j + 1)..Len(s) :
                /\ LiteralAt(s, k, litScriptClose)
                /\ \A m \in (j + 1)..(k - 1) : Dot(s[m])

\* re.search: the pattern matches at some position of the string.
detect_sql_injection(s) == \E i \in 1..(Len(s) + 1) : SQL_INJECTION_PATTERN(s, i)

detect_xss(s) == \E i \in 1..(Len(s) + 1) : XSS_PATTERN(s, i)

(***************************************************************************)
(* The strings the detector is run on: up to MaxParts pieces, each a       *)
(* keyword, a piece of punctuation, a tag or a single character.           *)
(***************************************************************************)
MaxParts == 3

Parts ==
    { kwSelect, litScriptOpen, <<"I","N","S","E","R","T">>, <<"U","n","i","o","n">>, <<"D","R","O","P">>,
      litDashes, litSemicolon,
      <<"<","s","c","r","i","p","t",">">>, <<"<","/","S","C","R","I","P","T",">">>,
      <<"a">>, <<"1">>, <<"_">>, <<" ">>, <<"'">>, <<"\n">>, <<">">> }

RECURSIVE StringsOf(_)
StringsOf(n) ==
    IF n = 0 THEN {<<>>}
    ELSE LET shorter == StringsOf(n - 1)
         IN  shorter \cup {s \o p : s \in shorter, p \in Parts}

Inputs == StringsOf(MaxParts)

(***************************************************************************)
(* Detector runs: the detector applied to one string                       *)
(***************************************************************************)
CallDetectSql ==
    /\ "sql_injection" \notin returned
    /\ sqlResult' = detect_sql_injection(input_data)
    /\ returned' = returned \cup {"sql_injection"}
    /\ UNCHANGED <<input_data, xssResult>>
    /\ UNCHANGED gateVars

CallDetectXss ==
    /\ "xss" \notin returned
    /\ xssResult' = detect_xss(input_data)
    /\ returned' = returned \cup {"xss"}
    /\ UNCHANGED <<input_data, sqlResult>>
    /\ UNCHANGED gateVars

(***************************************************************************)
(* app.py: requests                                                        *)
(***************************************************************************)
Workers == {"w1", "w2"}

\* The workers of a server that handles one request at a time.
OneWorker == {"w1"}

Addrs == {"10.0.0.1", "10.0.0.2"}

\* "/" is home; "/submit" is where home's form posts to.
Routes == {"/", "/submit"}

\* The routes decorated with limiter.limit: home alone.
LimitedRoutes == {"/"}

\* limiter.limit("5 per minute")
Quota == 5

Keys == {"user_input", "comment"}

valClean == <<"a", " ", "1">>
valSql   == <<"D","R","O","P">>
valXss   == <<"<","s","c","r","i","p","t",">","<","/","S","C","R","I","P","T",">">>
valBoth  == <<"<","s","c","r","i","p","t",">","D","R","O","P","<","/","S","C","R","I","P","T",">">>

FieldValues == {valClean, valSql, valXss, valBoth}

\* The detectors' verdicts on the field values, worked out once.
sql_verdict == [v \in FieldValues |-> detect_sql_injection(v)]

xss_verdict == [v \in FieldValues |-> detect_xss(v)]

Pairs == [key : Keys, value : FieldValues]

MaxFields == 2

RECURSIVE FormsOf(_)
FormsOf(n) ==
    IF n = 0 THEN {<<>>}
    ELSE LET shorter == FormsOf(n - 1)
         IN  shorter \cup {Append(f, p) : f \in shorter, p \in Pairs}

\* The form bodies a request may carry, as submitted: a key may repeat.
Forms == FormsOf(MaxFields)

\* request.form.items(): request.form is a MultiDict, and items() yields one
\* pair per key, in the order the keys first appear, with the key's first value.
RECURSIVE Items(_)
Items(f) ==
    IF f = <<>> THEN <<>>
    ELSE LET n == Len(f)
             front == SubSeq(f, 1, n - 1)
         IN  IF \E j \in 1..(n - 1) : f[j].key = f[n].key
             THEN Items(front)
             ELSE Append(Items(front), f[n])

NoRequest == [remote_addr |-> "none", route |-> "none", form |-> <<>>]

\* The record logging.info writes: who, which attack, which value.
Record(w, attack) ==
    [remote_addr |-> req[w].remote_addr,
     attack      |-> attack,
     value       |-> fields[w][idx[w]].value]

GateInit ==
    /\ pc = [w \in Workers |-> "idle"]
    /\ req = [w \in Workers |-> NoRequest]
    /\ fields = [w \in Workers |-> <<>>]
    /\ idx = [w \in Workers |-> 0]
    /\ cls = [w \in Workers |-> "none"]
    /\ status = [w \in Workers |-> 0]
    /\ wrote = [w \in Workers |-> <<>>]
    /\ late = [w \in Workers |-> FALSE]
    /\ log = <<>>
    /\ logFailures = 0
    /\ hits = [a \in Addrs |-> 0]
    /\ passed = [a \in Addrs |-> [r \in Routes |-> 0]]
    /\ received = 0

DetInit ==
    /\ input_data = <<>>
    /\ returned = {}
    /\ sqlResult = FALSE
    /\ xssResult = FALSE

\* A request arrives and a worker takes it: any address, any route, any form
\* of forms. The before_request hooks come first.
Receive(w, forms, cap) ==
    /\ pc[w] = "idle"
    /\ received < cap
    /\ received' = received + 1
    /\ \E a \in Addrs, r \in Routes, f \in forms :
          /\ req' = [req EXCEPT ![w] = [remote_addr |-> a, route |-> r, form |-> f]]
          /\ fields' = [fields EXCEPT ![w] = Items(f)]
          /\ late' = [late EXCEPT ![w] = passed[a][r] >= Quota]
    /\ idx' = [idx EXCEPT ![w] = 1]
    /\ pc' = [pc EXCEPT ![w] = "check_security"]
    /\ UNCHANGED <<cls, status, wrote, log, logFailures, hits, passed>>
    /\ UNCHANGED detVars

\* check_security's loop with the two rules tried the other way round.
check_security_field_xss_first(w) ==
    /\ pc[w] = "check_security"
    /\ idx[w] <= Len(fields[w])
    /\ LET value == fields[w][idx[w]].value
       IN  IF xss_verdict[value]
           THEN /\ cls' = [cls EXCEPT ![w] = "xss"]
                /\ pc' = [pc EXCEPT ![w] = "logging"]
                /\ idx' = idx
           ELSE IF sql_verdict[value]
           THEN /\ cls' = [cls EXCEPT ![w] = "sql_injection"]
                /\ pc' = [pc EXCEPT ![w] = "logging"]
                /\ idx' = idx
           ELSE /\ idx' = [idx EXCEPT ![w] = idx[w] + 1]
                /\ UNCHANGED <<cls, pc>>
    /\ UNCHANGED <<req, fields, status, wrote, log, logFailures, hits, passed, late,
                   received>>
    /\ UNCHANGED detVars

\* One turn of check_security's for loop: the value is tried against the SQL
\* rule, then against the XSS rule; the first hit leaves the loop.
check_security_field(w) ==
    /\ pc[w] = "check_security"
    /\ idx[w] <= Len(fields[w])
    /\ LET value == fields[w][idx[w]].value
       IN  IF sql_verdict[value]
           THEN /\ cls' = [cls EXCEPT ![w] = "sql_injection"]
                /\ pc' = [pc EXCEPT ![w] = "logging"]
                /\ idx' = idx
           ELSE IF xss_verdict[value]
           THEN /\ cls' = [cls EXCEPT ![w] = "xss"]
                /\ pc' = [pc EXCEPT ![w] = "logging"]
                /\ idx' = idx
           ELSE /\ idx' = [idx EXCEPT ![w] = idx[w] + 1]
                /\ UNCHANGED <<cls, pc>>
    /\ UNCHANGED <<req, fields, status, wrote, log, logFailures, hits, passed, late,
                   received>>
    /\ UNCHANGED detVars

\* The loop ran out of fields: check_security returns None, the request goes on.
check_security_return(w) ==
    /\ pc[w] = "check_security"
    /\ idx[w] > Len(fields[w])
    /\ pc' = [pc EXCEPT ![w] = "dispatch"]
    /\ UNCHANGED <<req, fields, idx, cls, status, wrote, log, logFailures, hits, passed, late, received>>
    /\ UNCHANGED detVars

\* logging.info with waf.log opened for writing anew instead of for appending.
logging_info_truncating(w) ==
    /\ pc[w] = "logging"
    /\ log' = <<Record(w, cls[w])>>
    /\ wrote' = [wrote EXCEPT ![w] = Append(wrote[w], Record(w, cls[w]))]
    /\ pc' = [pc EXCEPT ![w] = "abort"]
    /\ UNCHANGED <<req, fields, idx, cls, status, logFailures, hits, passed, late,
                   received>>
    /\ UNCHANGED detVars

\* logging.info(...): the record is appended to waf.log.
logging_info(w) ==
    /\ pc[w] = "logging"
    /\ log' = Append(log, Record(w, cls[w]))
    /\ wrote' = [wrote EXCEPT ![w] = Append(wrote[w], Record(w, cls[w]))]
    /\ pc' = [pc EXCEPT ![w] = "abort"]
    /\ UNCHANGED <<req, fields, idx, cls, status, logFailures, hits, passed, late, received>>
    /\ UNCHANGED detVars

\* A failed write that is let out of logging.info: the request ends in 500.
logging_info_fails_raising(w) ==
    /\ pc[w] = "logging"
    /\ logFailures' = logFailures + 1
    /\ status' = [status EXCEPT ![w] = 500]
    /\ pc' = [pc EXCEPT ![w] = "done"]
    /\ UNCHANGED <<req, fields, idx, cls, wrote, log, hits, passed, late, received>>
    /\ UNCHANGED detVars

MaxLogFailures == 1

\* logging.info(...) when the write to waf.log fails: the logging module's
\* handler reports the error itself and returns; nothing is appended, and
\* app.py counts nothing.
logging_info_fails(w) ==
    /\ pc[w] = "logging"
    /\ logFailures < MaxLogFailures
    /\ logFailures' = logFailures + 1
    /\ pc' = [pc EXCEPT ![w] = "abort"]
    /\ UNCHANGED <<req, fields, idx, cls, status, wrote, log, hits, passed, late, received>>
    /\ UNCHANGED detVars

\* abort(400, ...): the request ends here with status 400.
abort(w) ==
    /\ pc[w] = "abort"
    /\ status' = [status EXCEPT ![w] = 400]
    /\ pc' = [pc EXCEPT ![w] = "done"]
    /\ UNCHANGED <<req, fields, idx, cls, wrote, log, logFailures, hits, passed, late, received>>
    /\ UNCHANGED detVars

\* The limiter letting the request through when the counter was at the quota.
limiter_limit_one_more(w) ==
    /\ pc[w] = "dispatch"
    /\ req[w].route \in LimitedRoutes
    /\ LET a == req[w].remote_addr
           r == req[w].route
       IN  /\ hits' = [hits EXCEPT ![a] = hits[a] + 1]
           /\ IF hits[a] <= Quota
              THEN /\ passed' = [passed EXCEPT ![a][r] = passed[a][r] + 1]
                   /\ pc' = [pc EXCEPT ![w] = "view"]
                   /\ status' = status
              ELSE /\ status' = [status EXCEPT ![w] = 429]
                   /\ pc' = [pc EXCEPT ![w] = "done"]
                   /\ passed' = passed
    /\ UNCHANGED <<req, fields, idx, cls, wrote, log, logFailures, late, received>>
    /\ UNCHANGED detVars

\* @limiter.limit("5 per minute") around home. The limit wraps the view, so it
\* is consulted when the view is called, after the before_request hooks have
\* let the request through. The call counts one hit for the remote address
\* (key_func=get_remote_address); past the quota the answer is 429. Counting
\* and comparing are taken as one step: how the limiter's storage does them
\* is not in app.py.
limiter_limit(w) ==
    /\ pc[w] = "dispatch"
    /\ req[w].route \in LimitedRoutes
    /\ LET a == req[w].remote_addr
           r == req[w].route
       IN  /\ hits' = [hits EXCEPT ![a] = hits[a] + 1]
           /\ IF hits[a] + 1 <= Quota
              THEN /\ passed' = [passed EXCEPT ![a][r] = passed[a][r] + 1]
                   /\ pc' = [pc EXCEPT ![w] = "view"]
                   /\ status' = status
              ELSE /\ status' = [status EXCEPT ![w] = 429]
                   /\ pc' = [pc EXCEPT ![w] = "done"]
                   /\ passed' = passed
    /\ UNCHANGED <<req, fields, idx, cls, wrote, log, logFailures, late, received>>
    /\ UNCHANGED detVars

\* A route that carries no limiter.limit: its view is called straight away.
dispatch_unlimited(w) ==
    /\ pc[w] = "dispatch"
    /\ req[w].route \notin LimitedRoutes
    /\ LET a == req[w].remote_addr
           r == req[w].route
       IN  passed' = [passed EXCEPT ![a][r] = passed[a][r] + 1]
    /\ pc' = [pc EXCEPT ![w] = "view"]
    /\ UNCHANGED <<req, fields, idx, cls, status, wrote, log, logFailures, hits, late, received>>
    /\ UNCHANGED detVars

\* home returns its page.
home(w) ==
    /\ pc[w] = "view"
    /\ req[w].route = "/"
    /\ status' = [status EXCEPT ![w] = 200]
    /\ pc' = [pc EXCEPT ![w] = "done"]
    /\ UNCHANGED <<req, fields, idx, cls, wrote, log, logFailures, hits, passed, late, received>>
    /\ UNCHANGED detVars

\* The view of "/submit" is not part of app.py as given: the request is
\* answered by it (200) or, should no such view exist, with 404.
submit(w) ==
    /\ pc[w] = "view"
    /\ req[w].route = "/submit"
    /\ \E s \in {200, 404} : status' = [status EXCEPT ![w] = s]
    /\ pc' = [pc EXCEPT ![w] = "done"]
    /\ UNCHANGED <<req, fields, idx, cls, wrote, log, logFailures, hits, passed, late, received>>
    /\ UNCHANGED detVars

\* The response is sent and the worker is free again.
respond(w) ==
    /\ pc[w] = "done"
    /\ pc' = [pc EXCEPT ![w] = "idle"]
    /\ req' = [req EXCEPT ![w] = NoRequest]
    /\ fields' = [fields EXCEPT ![w] = <<>>]
    /\ idx' = [idx EXCEPT ![w] = 0]
    /\ cls' = [cls EXCEPT ![w] = "none"]
    /\ status' = [status EXCEPT ![w] = 0]
    /\ wrote' = [wrote EXCEPT ![w] = <<>>]
    /\ late' = [late EXCEPT ![w] = FALSE]
    /\ UNCHANGED <<log, logFailures, hits, passed, received>>
    /\ UNCHANGED detVars

\* "per minute": a minute after the address's first request of the window its
\* counter is gone.
WindowExpire(a) ==
    /\ hits[a] > 0 \/ \E r \in Routes : passed[a][r] > 0
    /\ hits' = [hits EXCEPT ![a] = 0]
    /\ passed' = [passed EXCEPT ![a] = [r \in Routes |-> 0]]
    /\ late' = [w \in Workers |-> IF req[w].remote_addr = a THEN FALSE ELSE late[w]]
    /\ UNCHANGED <<pc, req, fields, idx, cls, status, wrote, log, logFailures, received>>
    /\ UNCHANGED detVars

\* What a worker does with a request once it has it, the log never failing.
Handle(w) ==
    \/ check_security_field(w)
    \/ check_security_return(w)
    \/ logging_info(w)
    \/ abort(w)
    \/ limiter_limit(w)
    \/ dispatch_unlimited(w)
    \/ home(w)
    \/ submit(w)
    \/ respond(w)

MaxRequests == 2

Init == GateInit /\ DetInit

Next ==
    \/ \E w \in OneWorker : Receive(w, Forms, MaxRequests)
    \/ \E w \in OneWorker : Handle(w)
    \/ \E a \in Addrs : WindowExpire(a)

Spec == Init /\ [][Next]_vars

(***************************************************************************)
(* The same, with writes to waf.log that may fail.                         *)
(***************************************************************************)
NextLogFailure ==
    \/ Next
    \/ \E w \in OneWorker : logging_info_fails(w)

SpecLogFailure == Init /\ [][NextLogFailure]_vars

(***************************************************************************)
(* Two workers handling requests at the same time, over a few forms.       *)
(***************************************************************************)
MaxConcurrentRequests == 3

ConcurrentForms ==
    {<<>>,
     <<[key |-> "user_input", value |-> valSql]>>,
     <<[key |-> "user_input", value |-> valXss]>>,
     <<[key |-> "user_input", value |-> valClean],
       [key |-> "comment", value |-> valBoth]>>}

NextConcurrent ==
    \/ \E w \in Workers : Receive(w, ConcurrentForms, MaxConcurrentRequests)
    \/ \E w \in Workers : Handle(w)
    \/ \E a \in Addrs : WindowExpire(a)

SpecConcurrent == Init /\ [][NextConcurrent]_vars

(***************************************************************************)
(* One request at a time, with forms of at most one field and enough       *)
(* requests to use the quota up.                                           *)
(***************************************************************************)
MaxQuotaRequests == 7

QuotaForms ==
    {<<>>,
     <<[key |-> "user_input", value |-> valClean]>>,
     <<[key |-> "user_input", value |-> valSql]>>}

NextQuota ==
    \/ \E w \in OneWorker : Receive(w, QuotaForms, MaxQuotaRequests)
    \/ \E w \in OneWorker : Handle(w)
    \/ \E a \in Addrs : WindowExpire(a)

SpecQuota == Init /\ [][NextQuota]_vars

(***************************************************************************)
(* The detector on every string of Inputs.                                 *)
(***************************************************************************)
InitDetect ==
    /\ GateInit
    /\ input_data \in Inputs
    /\ returned = {}
    /\ sqlResult = FALSE
    /\ xssResult = FALSE

NextDetect == CallDetectSql \/ CallDetectXss

SpecDetect == InitDetect /\ [][NextDetect]_vars

(***************************************************************************)
(* Vocabulary of the properties                                            *)
(***************************************************************************)
\* The characters of lit stand in s, exactly as written, somewhere.
Occurs(s, lit) ==
    \E i \in 1..Len(s) :
        /\ i + Len(lit) - 1 <= Len(s)
        /\ SubSeq(s, i, i + Len(lit) - 1) = lit

\* kw stands in s as a whole word, in any letter case: no letter, digit or
\* underscore right before it or right after it.
WholeWordAt(s, i, kw) ==
    /\ LiteralAt(s, i, kw)
    /\ i = 1 \/ ~IsWordChar(s[i - 1])
    /\ i + Len(kw) - 1 = Len(s) \/ ~IsWordChar(s[i + Len(kw)])

HasKeyword(s) ==
    \E kw \in {kwSelect, kwInsert, kwUnion, kwDrop} :
        \E i \in 1..Len(s) : WholeWordAt(s, i, kw)

\* An opening <script ...> tag with a closing </script> tag somewhere after it,
\* whatever stands inside the tag and between the two.
HasScriptPair(s) ==
    \E i \in 1..Len(s) :
        /\ LiteralAt(s, i, litScriptOpen)
        /\ \E j \in (i + Len(litScriptOpen))..Len(s) :
              /\ s[j] = ">"
              /\ \E k \in (j + 1)..Len(s) : LiteralAt(s, k, litScriptClose)

\* The value matches one of the two attack classes.
Attack(v) == sql_verdict[v] \/ xss_verdict[v]

\* The worker's request has passed check_security.
Allowed(w) ==
    \/ pc[w] \in {"dispatch", "view"}
    \/ pc[w] = "done" /\ status[w] # 400

\* The worker's request has been caught by check_security.
Caught(w) == pc[w] \in {"logging", "abort"} \/ status[w] = 400

\* Everything app.py keeps from one request to the next: waf.log and the
\* limiter's counters.
ProcessState == <<log, hits>>

(***************************************************************************)
(* C1. check_security lets a request through exactly when none of the      *)
(* field values submitted with it matches an attack class; a request with  *)
(* a matching value, wherever it stands, is answered 400.                  *)
(***************************************************************************)
C1_AllowedIffNoValueMatches ==
    \A w \in Workers :
        /\ Allowed(w) =>
              \A i \in DOMAIN req[w].form : ~Attack(req[w].form[i].value)
        /\ (pc[w] = "done" /\ \E i \in DOMAIN req[w].form : Attack(req[w].form[i].value))
              => status[w] = 400

C4_DashesAndSemicolonReported ==
    ("sql_injection" \in returned
        /\ (Occurs(input_data, litDashes) \/ Occurs(input_data, litSemicolon)))
    => sqlResult

(***************************************************************************)
(* C5. Every string with an opening script tag and, after it, a closing    *)
(* script tag is reported by detect_xss, in any letter case and whatever   *)
(* stands between the tags, line feeds included.                           *)
(***************************************************************************)
C5_ScriptPairReported ==
    ("xss" \in returned /\ HasScriptPair(input_data)) => xssResult

(***************************************************************************)
(* C6. A string with select, insert, union or drop as a whole word, in any *)
(* letter case, is reported by detect_sql_injection; a string with none of *)
(* them, no "--" and no ";" is not.                                        *)
(***************************************************************************)
C6_KeywordsReported ==
    "sql_injection" \in returned =>
        /\ HasKeyword(input_data) => sqlResult
        /\ (/\ ~HasKeyword(input_data)
            /\ ~Occurs(input_data, litDashes)
            /\ ~Occurs(input_data, litSemicolon)) => ~sqlResult

C6_Witness ==
    /\ "sql_injection" \in returned
    /\ sqlResult
    /\ WholeWordAt(input_data, 2, kwDrop)
    /\ ~Occurs(input_data, litDashes)
    /\ ~Occurs(input_data, litSemicolon)

(***************************************************************************)
(* C7. A request answered 400 has, by then, had exactly one record         *)
(* appended to the log for it, with its address, the class that matched    *)
(* and the offending value, and had it before the response was made; a     *)
(* request let through has none; the log only ever grows at its end.       *)
(***************************************************************************)
C7_Logged(w) ==
    /\ (pc[w] = "abort" \/ status[w] = 400) =>
          /\ Len(wrote[w]) = 1
          /\ wrote[w][1].remote_addr = req[w].remote_addr
          /\ wrote[w][1].value = fields[w][idx[w]].value
          /\ wrote[w][1].attack \in {"sql_injection", "xss"}
          /\ wrote[w][1].attack = "sql_injection" => sql_verdict[wrote[w][1].value]
          /\ wrote[w][1].attack = "xss" => xss_verdict[wrote[w][1].value]
          /\ \E k \in DOMAIN log : log[k] = wrote[w][1]
    /\ pc[w] = "logging" => (wrote[w] = <<>> /\ status[w] = 0)
    /\ Allowed(w) => wrote[w] = <<>>

C9_FailureCounted ==
    [][logFailures' # logFailures => ProcessState' # ProcessState]_vars

(***************************************************************************)
(* C9, amended. A failed append does not stop the request: it is answered  *)
(* 400 all the same, without a record, and requests after it are checked   *)
(* as before. No counter of failures is kept.                              *)
(***************************************************************************)
C9_FailureRecovered ==
    \A w \in Workers :
        /\ (pc[w] = "done" /\ \E i \in DOMAIN fields[w] : Attack(fields[w][i].value))
              => status[w] = 400
        /\ status[w] \in {0, 200, 400, 404, 429}
        /\ (pc[w] = "done" /\ status[w] = 400) => Len(wrote[w]) <= 1

C9_Witness ==
    /\ logFailures = 1
    /\ \E w \in Workers : status[w] = 400 /\ wrote[w] = <<>>

(***************************************************************************)
(* C10. A request with no field is let through by check_security with no   *)
(* record logged, and is held to the quota on whatever route it comes:     *)
(* over the quota it is answered 429.                                      *)
(***************************************************************************)
C10_EmptyFormStillLimited ==
    \A w \in Workers :
        (pc[w] = "done" /\ req[w].form = <<>>) =>
            /\ status[w] # 400
            /\ wrote[w] = <<>>
            /\ late[w] => status[w] = 429

====
